---- MODULE Spec2Model ----
(***************************************************************************)
(* Model of the YouTube search proxy (src/server.js, with the channel      *)
(* handler of src/unnamed/part_000): the node-cache store, the quota flag  *)
(* with its debounced probe, makeYouTubeApiCall and the three lookup       *)
(* handlers.  Strings are sequences of one-character strings, times are    *)
(* milliseconds as returned by Date.now().                                 *)
(***************************************************************************)
EXTENDS Integers, Sequences, FiniteSets, Bags, TLC

VARIABLES
    now,             \* Date.now()
    ticks,           \* number of clock advances so far (bounds the run)
    cache,           \* myCache.data: key -> [v: payload, t: expiry instant]
    quotaExhausted,  \* let quotaExhausted
    lastQuotaCheck,  \* let lastQuotaCheck
    inflight,        \* bag of the lookups awaiting their upstream call
    probe,           \* per caller: the checkQuotaStatus call awaiting its fetch
    upstreamCalls,   \* number of upstream calls started by lookups
    last,            \* the HTTP exchange answered by the step just taken,
                     \* until its response has left the process
    fresh,           \* history: fresh 200 answers per key since the last flush
    lastProbeAt      \* history: when checkQuotaStatus last started its fetch

vars == <<now, ticks, cache, quotaExhausted, lastQuotaCheck, inflight, probe,
          upstreamCalls, last, fresh, lastProbeAt>>

----------------------------------------------------------------------------
(* Bounds of the model *)

MaxProbes == 1    \* concurrent callers of GET /api/Youtube/quota-status
MaxTicks == 1     \* clock advances in a run
MaxCalls == 2     \* upstream calls started by lookups in a run
MaxItems == 1     \* longest items array upstream returns
StartNow == 1000000  \* Date.now() when the server starts listening
ShortTick == 1000    \* a clock advance short enough for calls to span

(* Program constants *)

QUOTA_CHECK_INTERVAL == 300000
stdTTL == 7200
MaxResultsDefault == 10
MaxResultsCeiling == 50
FetchTimeout == 15000     \* AbortSignal.timeout of a lookup's fetch
ProbeTimeout == 5000      \* AbortSignal.timeout of the probe's fetch

ProbeIds == 0 .. MaxProbes      \* 0 is the probe started by app.listen
\* The clock advances by a short step, by the debounce interval, or past the
\* TTL of everything cached.
TickSteps ==
    {ShortTick, QUOTA_CHECK_INTERVAL, stdTTL * 1000 + QUOTA_CHECK_INTERVAL}

----------------------------------------------------------------------------
(* JavaScript values and strings *)

\* A query or route parameter is <<s>> for the string s, or Undefined when
\* the request does not carry it; parseInt yields <<n>> or NaN.
Undefined == <<>>
Str(s) == <<s>>
NaN == <<>>
Num(n) == <<n>>

IsSpace(c) == c \in {" ", "\t"}
IsDigit(c) == c \in {"0", "1", "2", "3", "4", "5", "6", "7", "8", "9"}

DigitVal(c) ==
    CASE c = "0" -> 0 [] c = "1" -> 1 [] c = "2" -> 2 [] c = "3" -> 3
      [] c = "4" -> 4 [] c = "5" -> 5 [] c = "6" -> 6 [] c = "7" -> 7
      [] c = "8" -> 8 [] c = "9" -> 9

DigitChar(d) ==
    CASE d = 0 -> "0" [] d = 1 -> "1" [] d = 2 -> "2" [] d = 3 -> "3"
      [] d = 4 -> "4" [] d = 5 -> "5" [] d = 6 -> "6" [] d = 7 -> "7"
      [] d = 8 -> "8" [] d = 9 -> "9"

\* String.prototype.toLowerCase on the letters the model's inputs use
LowerChar(c) ==
    CASE c = "A" -> "a" [] c = "B" -> "b" [] c = "C" -> "c" [] OTHER -> c

toLowerCase(s) == [i \in 1 .. Len(s) |-> LowerChar(s[i])]

RECURSIVE TrimStart(_)
TrimStart(s) ==
    IF s # <<>> /\ IsSpace(Head(s)) THEN TrimStart(Tail(s)) ELSE s

RECURSIVE TrimEnd(_)
TrimEnd(s) ==
    IF s # <<>> /\ IsSpace(s[Len(s)])
    THEN TrimEnd(SubSeq(s, 1, Len(s) - 1))
    ELSE s

\* String.prototype.trim
trim(s) == TrimEnd(TrimStart(s))

\* the longest prefix of s made of digits
RECURSIVE DigitPrefix(_)
DigitPrefix(s) ==
    IF s # <<>> /\ IsDigit(Head(s))
    THEN <<Head(s)>> \o DigitPrefix(Tail(s))
    ELSE <<>>

RECURSIVE DigitsValue(_, _)
DigitsValue(s, acc) ==
    IF s = <<>> THEN acc ELSE DigitsValue(Tail(s), acc * 10 + DigitVal(Head(s)))

\* parseInt(x, 10): leading white space skipped, an optional sign, then the
\* longest run of digits; NaN when there is none (also for undefined)
parseInt(x) ==
    IF x = Undefined THEN NaN
    ELSE LET s == TrimStart(x[1])
             neg == s # <<>> /\ Head(s) = "-"
             signed == s # <<>> /\ Head(s) \in {"-", "+"}
             ds == DigitPrefix(IF signed THEN Tail(s) ELSE s)
         IN  IF ds = <<>> THEN NaN
             ELSE IF neg THEN Num(0 - DigitsValue(ds, 0))
             ELSE Num(DigitsValue(ds, 0))

RECURSIVE NatToString(_)
NatToString(n) ==
    IF n < 10 THEN <<DigitChar(n)>>
    ELSE NatToString(n \div 10) \o <<DigitChar(n % 10)>>

\* a number inside a template literal: `${n}`
NumberToString(n) ==
    IF n < 0 THEN <<"-">> \o NatToString(0 - n) ELSE NatToString(n)

\* !x for a string-or-undefined x
Falsy(x) == x = Undefined \/ x[1] = <<>>

----------------------------------------------------------------------------
(* Upstream responses *)

\* The parsed JSON body of an upstream answer, as far as the code looks at
\* it: JSON null, an object without (or with a falsy) items field, an object
\* whose items is a truthy non-array, or an object whose items is an array
\* of len elements.
Body(shape, len) == [shape |-> shape, len |-> len]
NoBody == Body("none", 0)
UpstreamBodies ==
    {Body("null", 0), Body("noitems", 0), Body("object", 0)}
        \cup {Body("array", n) : n \in 0 .. MaxItems}

\* What one upstream call ends with.
\*   fetchError  fetch rejects (timeout, DNS, connection)
\*   nonJson     content type is not application/json
\*   invalidJson response.json() throws
\*   quota       status not ok, error.errors has reason quotaExceeded
\*   apiError    status not ok, no such reason
\*   ok          status ok, parsed body
Outcome(t, b) == [t |-> t, body |-> b]
UpstreamOutcomes ==
    {Outcome(t, NoBody) :
        t \in {"fetchError", "nonJson", "invalidJson", "quota", "apiError"}}
        \cup {Outcome("ok", b) : b \in UpstreamBodies}

\* error.message of what makeYouTubeApiCall throws for an outcome
ErrorMessage(o) ==
    CASE o.t = "fetchError" -> "The operation was aborted due to timeout"
      [] o.t = "nonJson" -> "Non-JSON response"
      [] o.t = "invalidJson" -> "Invalid JSON"
      [] o.t = "quota" -> "Quota exceeded and no cached data available"
      [] o.t = "apiError" -> "YouTube API error"
      [] OTHER -> "Cannot read properties of null (reading 'items')"

----------------------------------------------------------------------------
(* node-cache, as configured at construction: stdTTL 7200 s, entries deleted
   on expiry, a sweep every checkperiod *)

EmptyCache == [k \in {} |-> NoBody]

Expired(e, t) == e.t < t

\* whether get(k) finds a value at time t
CacheHit(c, k, t) == k \in DOMAIN c /\ ~Expired(c[k], t)

\* the value get(k) returns on a hit: the body stored
CacheValue(c, k) == c[k].v

\* the annotation properties (_fromCache, _quotaExceeded, _apiError) that the
\* object stored under k carries, which a spread of it copies
NoAnn == [fromCache |-> FALSE, quota |-> FALSE, api |-> ""]
CacheAnn(c, k) == c[k].ann

\* the store after get(k) at time t: an expired entry is deleted by the read
CacheAfterGet(c, k, t) ==
    IF k \in DOMAIN c /\ Expired(c[k], t)
    THEN [j \in DOMAIN c \ {k} |-> c[j]]
    ELSE c

\* set(k, data) at time t, for an object with body v and annotations ann
CachePut(c, k, v, ann, t) ==
    [j \in DOMAIN c \cup {k} |->
        IF j = k THEN [v |-> v, t |-> t + stdTTL * 1000, ann |-> ann]
        ELSE c[j]]

\* set(k, data) at time t for data as parsed from the upstream response
CacheSet(c, k, v, t) == CachePut(c, k, v, NoAnn, t)

\* keys(): every key physically present
CacheKeys(c) == DOMAIN c

\* the periodic sweep at time t
CacheSweep(c, t) == [j \in {k \in DOMAIN c : ~Expired(c[k], t)} |-> c[j]]

----------------------------------------------------------------------------
(* makeYouTubeApiCall *)

\* What the call hands back: a value returned (threw = FALSE) with the
\* annotations spread into data, or an Error thrown (threw = TRUE); and the
\* module state it leaves behind.
CallResult(threw, message, body, fromCache, annQuota, annApi, c, qe, lqc) ==
    [threw |-> threw, message |-> message, body |-> body,
     fromCache |-> fromCache, annQuota |-> annQuota, annApi |-> annApi,
     cache |-> c, quotaExhausted |-> qe, lastQuotaCheck |-> lqc]

\* the catch block: a copy of the cached object annotated _fromCache and
\* _apiError, else rethrow
CallCatch(message, cacheKey, c, qe, lqc, t) ==
    IF CacheHit(c, cacheKey, t)
    THEN CallResult(FALSE, "", CacheValue(c, cacheKey), TRUE,
                    CacheAnn(c, cacheKey).quota, message, c, qe, lqc)
    ELSE CallResult(TRUE, message, NoBody, FALSE, FALSE, "",
                    CacheAfterGet(c, cacheKey, t), qe, lqc)

\* makeYouTubeApiCall without the write to the cache
MakeYouTubeApiCall_NoStore(o, cacheKey, c, qe, lqc, t) ==
    CASE o.t \in {"fetchError", "nonJson", "invalidJson", "apiError"} ->
            CallCatch(ErrorMessage(o), cacheKey, c, qe, lqc, t)
      [] o.t = "quota" ->
            IF CacheHit(c, cacheKey, t)
            THEN CallResult(FALSE, "", CacheValue(c, cacheKey), TRUE, TRUE,
                            CacheAnn(c, cacheKey).api, c, TRUE, t)
            ELSE CallCatch(ErrorMessage(o), cacheKey,
                           CacheAfterGet(c, cacheKey, t), TRUE, t, t)
      [] OTHER ->
            CallResult(FALSE, "", o.body, FALSE, FALSE, "", c, qe, lqc)

\* makeYouTubeApiCall setting the flag only when it has nothing to fall
\* back on
MakeYouTubeApiCall_FlagOnMiss(o, cacheKey, c, qe, lqc, t) ==
    CASE o.t \in {"fetchError", "nonJson", "invalidJson", "apiError"} ->
            CallCatch(ErrorMessage(o), cacheKey, c, qe, lqc, t)
      [] o.t = "quota" ->
            IF CacheHit(c, cacheKey, t)
            THEN CallResult(FALSE, "", CacheValue(c, cacheKey), TRUE, TRUE,
                            CacheAnn(c, cacheKey).api, c, qe, lqc)
            ELSE CallCatch(ErrorMessage(o), cacheKey,
                           CacheAfterGet(c, cacheKey, t), TRUE, t, t)
      [] OTHER ->
            CallResult(FALSE, "", o.body, FALSE, FALSE, "",
                       IF o.body.shape # "null" /\ cacheKey # <<>>
                       THEN CacheSet(c, cacheKey, o.body, t)
                       ELSE c,
                       qe, lqc)

\* makeYouTubeApiCall clearing the flag when upstream answers successfully
MakeYouTubeApiCall_SuccessClears(o, cacheKey, c, qe, lqc, t) ==
    CASE o.t \in {"fetchError", "nonJson", "invalidJson", "apiError"} ->
            CallCatch(ErrorMessage(o), cacheKey, c, qe, lqc, t)
      [] o.t = "quota" ->
            IF CacheHit(c, cacheKey, t)
            THEN CallResult(FALSE, "", CacheValue(c, cacheKey), TRUE, TRUE,
                            CacheAnn(c, cacheKey).api, c, TRUE, t)
            ELSE CallCatch(ErrorMessage(o), cacheKey,
                           CacheAfterGet(c, cacheKey, t), TRUE, t, t)
      [] OTHER ->
            CallResult(FALSE, "", o.body, FALSE, FALSE, "",
                       IF o.body.shape # "null" /\ cacheKey # <<>>
                       THEN CacheSet(c, cacheKey, o.body, t)
                       ELSE c,
                       FALSE, lqc)

\* makeYouTubeApiCall storing the annotated copy it falls back on
MakeYouTubeApiCall_WriteBack(o, cacheKey, c, qe, lqc, t) ==
    CASE o.t \in {"fetchError", "nonJson", "invalidJson", "apiError"} ->
            CallCatch(ErrorMessage(o), cacheKey, c, qe, lqc, t)
      [] o.t = "quota" ->
            IF CacheHit(c, cacheKey, t)
            THEN CallResult(FALSE, "", CacheValue(c, cacheKey), TRUE, TRUE,
                            CacheAnn(c, cacheKey).api,
                            CachePut(c, cacheKey, CacheValue(c, cacheKey),
                                     [fromCache |-> TRUE, quota |-> TRUE,
                                      api |-> CacheAnn(c, cacheKey).api], t),
                            TRUE, t)
            ELSE CallCatch(ErrorMessage(o), cacheKey,
                           CacheAfterGet(c, cacheKey, t), TRUE, t, t)
      [] OTHER ->
            CallResult(FALSE, "", o.body, FALSE, FALSE, "",
                       IF o.body.shape # "null" /\ cacheKey # <<>>
                       THEN CacheSet(c, cacheKey, o.body, t)
                       ELSE c,
                       qe, lqc)

\* the body of makeYouTubeApiCall once the upstream call has ended with o,
\* at time t, in module state (c, qe, lqc)
MakeYouTubeApiCall(o, cacheKey, c, qe, lqc, t) ==
    CASE o.t \in {"fetchError", "nonJson", "invalidJson", "apiError"} ->
            CallCatch(ErrorMessage(o), cacheKey, c, qe, lqc, t)
      [] o.t = "quota" ->
            IF CacheHit(c, cacheKey, t)
            THEN CallResult(FALSE, "", CacheValue(c, cacheKey), TRUE, TRUE,
                            CacheAnn(c, cacheKey).api, c, TRUE, t)
            ELSE CallCatch(ErrorMessage(o), cacheKey,
                           CacheAfterGet(c, cacheKey, t), TRUE, t, t)
      [] OTHER ->
            CallResult(FALSE, "", o.body, FALSE, FALSE, "",
                       IF o.body.shape # "null" /\ cacheKey # <<>>
                       THEN CacheSet(c, cacheKey, o.body, t)
                       ELSE c,
                       qe, lqc)

----------------------------------------------------------------------------
(* The lookup handlers *)

LookupKinds == {"search", "video", "channel"}

\* Math.min(parseInt(req.query.maxResults, 10) || 10, 50)
SearchMaxResults(m) ==
    LET parsed == parseInt(m)
        n == IF parsed = NaN \/ parsed[1] = 0 THEN MaxResultsDefault
             ELSE parsed[1]
    IN  IF n < MaxResultsCeiling THEN n ELSE MaxResultsCeiling

\* the effective result count of a request: a number for a search, none else
CountOf(kind, m) == IF kind = "search" THEN Num(SearchMaxResults(m)) ELSE NaN

\* the validation without the trim
Invalid_NoTrim(kind, p) == Falsy(p)

\* the validation at the head of each handler
Invalid(kind, p) ==
    CASE kind = "search" -> Falsy(p) \/ trim(p[1]) = <<>>
      [] kind = "video" -> Falsy(p) \/ trim(p[1]) = <<>>
      [] OTHER -> Falsy(p)

\* the cache key without the lower-casing of the query
CacheKey_NoLower(kind, p, m) ==
    CASE kind = "search" ->
            <<"s", "e", "a", "r", "c", "h", "_">> \o trim(p[1])
                \o <<"_">> \o NumberToString(SearchMaxResults(m))
      [] kind = "video" -> <<"v", "i", "d", "e", "o", "_">> \o p[1]
      [] OTHER -> <<"c", "h", "a", "n", "n", "e", "l", "_">> \o p[1]

\* the cache key of a valid request
CacheKey(kind, p, m) ==
    CASE kind = "search" ->
            <<"s", "e", "a", "r", "c", "h", "_">> \o trim(toLowerCase(p[1]))
                \o <<"_">> \o NumberToString(SearchMaxResults(m))
      [] kind = "video" -> <<"v", "i", "d", "e", "o", "_">> \o p[1]
      [] OTHER -> <<"c", "h", "a", "n", "n", "e", "l", "_">> \o p[1]

\* the handler's check of result.data.items: TRUE when the answer is refused
ShapeRefused(kind, b) ==
    IF kind = "search"
    THEN b.shape = "noitems" \/ b.shape # "array"
    ELSE b.shape = "noitems" \/ (b.shape = "array" /\ b.len = 0)

ShapeStatus(kind) == IF kind = "search" THEN 502 ELSE 404

\* One HTTP exchange: the request as received, what the handler derived from
\* it, the response as serialised, how many upstream calls it took, and how
\* that call ended (up, with the parsed body upBody when it was a 2xx).
\* A field the response does not carry is "absent", "" or 0.
NoExchange ==
    [op |-> "none", param |-> Undefined, maxResults |-> Undefined,
     key |-> <<>>, count |-> NaN, status |-> 0, body |-> NoBody,
     fromCache |-> FALSE, annQuota |-> FALSE, annApi |-> "",
     error |-> "", code |-> 0, quotaExceeded |-> "absent", details |-> "",
     cacheAvailable |-> "absent", quotaOk |-> "absent", clearedKeys |-> 0,
     calls |-> 0, up |-> "none", upBody |-> NoBody]

Flag(b) == IF b THEN "true" ELSE "false"

Request(kind, p, m) ==
    [NoExchange EXCEPT !.op = kind, !.param = p, !.maxResults = m]

\* res.status(400): search sends a code, the detail handlers do not
BadRequest(kind, p, m) ==
    [Request(kind, p, m) EXCEPT
        !.status = 400,
        !.error = CASE kind = "search" -> "Parametr zapytania q jest wymagany."
                    [] kind = "video" -> "Parametr videoId jest wymagany."
                    [] OTHER -> "Brak channelId",
        !.code = IF kind = "search" THEN 400 ELSE 0]

\* res.status(200).json({ ...cachedData, _fromCache: true })
CacheHitResponse(kind, p, m, c) ==
    [Request(kind, p, m) EXCEPT
        !.key = CacheKey(kind, p, m), !.count = CountOf(kind, m),
        !.status = 200, !.body = CacheValue(c, CacheKey(kind, p, m)),
        !.fromCache = TRUE,
        !.annQuota = CacheAnn(c, CacheKey(kind, p, m)).quota,
        !.annApi = CacheAnn(c, CacheKey(kind, p, m)).api]

\* the 429 sent when quotaExhausted is set and the cache missed
QuotaGateResponse(kind, p, m, c) ==
    [Request(kind, p, m) EXCEPT
        !.key = CacheKey(kind, p, m), !.count = CountOf(kind, m),
        !.status = 429, !.error = "YouTube API quota exceeded",
        !.code = IF kind = "channel" THEN 0 ELSE 429,
        !.quotaExceeded = IF kind = "channel" THEN "absent" ELSE "true",
        !.cacheAvailable =
            IF kind = "search" THEN Flag(CacheKeys(c) # {}) ELSE "absent"]

\* the handler's catch block, reading quotaExhausted as it is then
CatchResponse(x, message, qe) ==
    IF x.op = "channel"
    THEN [x EXCEPT !.status = 500, !.error = message]
    ELSE [x EXCEPT
            !.status = IF qe THEN 429 ELSE 500,
            !.error = IF qe THEN "YouTube API quota exceeded"
                      ELSE IF x.op = "search" THEN "Internal server error"
                      ELSE "Internal error fetching video details",
            !.details = message, !.quotaExceeded = Flag(qe),
            !.code = IF qe THEN 429 ELSE 500]

\* the handler from the return of makeYouTubeApiCall to its response
\* x: the exchange so far, res: what makeYouTubeApiCall handed back
AfterCall(x, res) ==
    IF res.threw THEN CatchResponse(x, res.message, res.quotaExhausted)
    ELSE IF res.body.shape = "null"
    THEN CatchResponse(x, "Cannot read properties of null (reading 'items')",
                       res.quotaExhausted)
    ELSE IF ShapeRefused(x.op, res.body)
    THEN [x EXCEPT !.status = ShapeStatus(x.op),
                   !.error = CASE x.op = "search" ->
                                    "Invalid response structure from YouTube API"
                               [] x.op = "video" -> "Video not found"
                               [] OTHER -> "Channel not found"]
    ELSE [x EXCEPT !.status = 200, !.body = res.body,
                   !.fromCache = res.fromCache, !.annQuota = res.annQuota,
                   !.annApi = res.annApi]

\* HandlerHead with the quota gate placed before the cache read
HandlerHead_GateFirst(kind, p, m, c, qe, t) ==
    IF Invalid(kind, p)
    THEN [call |-> FALSE, x |-> BadRequest(kind, p, m), cache |-> c]
    ELSE IF qe
    THEN [call |-> FALSE, x |-> QuotaGateResponse(kind, p, m, c), cache |-> c]
    ELSE IF CacheHit(c, CacheKey(kind, p, m), t)
    THEN [call |-> FALSE, x |-> CacheHitResponse(kind, p, m, c), cache |-> c]
    ELSE [call |-> TRUE,
          x |-> [Request(kind, p, m) EXCEPT
                    !.key = CacheKey(kind, p, m), !.count = CountOf(kind, m),
                    !.calls = 1],
          cache |-> CacheAfterGet(c, CacheKey(kind, p, m), t)]

\* HandlerHead with the quota gate left out of the channel handler
HandlerHead_NoChannelGate(kind, p, m, c, qe, t) ==
    IF Invalid(kind, p)
    THEN [call |-> FALSE, x |-> BadRequest(kind, p, m), cache |-> c]
    ELSE IF CacheHit(c, CacheKey(kind, p, m), t)
    THEN [call |-> FALSE, x |-> CacheHitResponse(kind, p, m, c), cache |-> c]
    ELSE IF qe /\ kind # "channel"
    THEN [call |-> FALSE,
          x |-> QuotaGateResponse(kind, p, m,
                                  CacheAfterGet(c, CacheKey(kind, p, m), t)),
          cache |-> CacheAfterGet(c, CacheKey(kind, p, m), t)]
    ELSE [call |-> TRUE,
          x |-> [Request(kind, p, m) EXCEPT
                    !.key = CacheKey(kind, p, m), !.count = CountOf(kind, m),
                    !.calls = 1],
          cache |-> CacheAfterGet(c, CacheKey(kind, p, m), t)]

\* The handler from its first line to its first await: either the response
\* it sends at once (call = FALSE) or the exchange it takes into
\* makeYouTubeApiCall (call = TRUE); and the cache as the read leaves it.
HandlerHead(kind, p, m, c, qe, t) ==
    IF Invalid(kind, p)
    THEN [call |-> FALSE, x |-> BadRequest(kind, p, m), cache |-> c]
    ELSE IF CacheHit(c, CacheKey(kind, p, m), t)
    THEN [call |-> FALSE, x |-> CacheHitResponse(kind, p, m, c), cache |-> c]
    ELSE IF qe
    THEN [call |-> FALSE,
          x |-> QuotaGateResponse(kind, p, m,
                                  CacheAfterGet(c, CacheKey(kind, p, m), t)),
          cache |-> CacheAfterGet(c, CacheKey(kind, p, m), t)]
    ELSE [call |-> TRUE,
          x |-> [Request(kind, p, m) EXCEPT
                    !.key = CacheKey(kind, p, m), !.count = CountOf(kind, m),
                    !.calls = 1],
          cache |-> CacheAfterGet(c, CacheKey(kind, p, m), t)]

----------------------------------------------------------------------------
(* checkQuotaStatus *)

NoProbe == 0 - 1

\* checkQuotaStatus without its debounce
ProbeSkipped_Never(t, lqc, qe) == FALSE

\* the debounce at the head of checkQuotaStatus: TRUE when the probe is skipped
ProbeSkipped(t, lqc, qe) == t - lqc < QUOTA_CHECK_INTERVAL /\ qe

ProbeOutcomes == {"ok", "quota", "notOk", "throw"}

\* checkQuotaStatus whose catch block clears the flag
ProbeEnd_ThrowClears(po, t, qe, lqc) ==
    CASE po = "quota" -> [ret |-> FALSE, quotaExhausted |-> TRUE,
                          lastQuotaCheck |-> t]
      [] po = "throw" -> [ret |-> TRUE, quotaExhausted |-> FALSE,
                          lastQuotaCheck |-> lqc]
      [] OTHER -> [ret |-> TRUE, quotaExhausted |-> FALSE,
                   lastQuotaCheck |-> t]

\* checkQuotaStatus from the end of its fetch: po is how the fetch ended
\* (status ok; not ok with the quotaExceeded reason; not ok without it; the
\* fetch or the timeout threw), t the time captured before the fetch
ProbeEnd(po, t, qe, lqc) ==
    CASE po = "quota" -> [ret |-> FALSE, quotaExhausted |-> TRUE,
                          lastQuotaCheck |-> t]
      [] po = "throw" -> [ret |-> ~qe, quotaExhausted |-> qe,
                          lastQuotaCheck |-> lqc]
      [] OTHER -> [ret |-> TRUE, quotaExhausted |-> FALSE,
                   lastQuotaCheck |-> t]

\* the body of the quota-status response
QuotaStatusResponse(ret, c) ==
    [NoExchange EXCEPT !.op = "quota-status", !.status = 200,
                       !.quotaOk = Flag(ret)]

\* console.log(`Initial quota status: ...`) of the app.listen callback
StartupLog(ret) ==
    [NoExchange EXCEPT !.op = "startup", !.quotaOk = Flag(ret)]

----------------------------------------------------------------------------
(* History: the fresh 200 answers given per key since the last flush, each
   with the body sent, the time it was sent and the parameter of the request
   it answered, kept while a lookup can still start within the TTL of that
   answer *)

NoFresh == [k \in {} |-> {}]

FreshAdd(f, y, t) ==
    [j \in DOMAIN f \cup {y.key} |->
        IF j = y.key
        THEN (IF y.key \in DOMAIN f THEN f[y.key] ELSE {})
                \cup {[body |-> y.body, at |-> t, by |-> y.param]}
        ELSE f[j]]

FreshPrune(f, t) ==
    LET keep(k) == {e \in f[k] : t <= e.at + stdTTL * 1000}
    IN  [j \in {k \in DOMAIN f : keep(k) # {}} |-> keep(j)]

----------------------------------------------------------------------------
(* Inputs *)

Queries == {Str(<<"a">>)}
MaxResultsInputs == {Undefined}
VideoIds == {Str(<<"v">>)}
ChannelIds == {Str(<<"c">>)}

ParamsOf(kind) ==
    CASE kind = "search" -> Queries
      [] kind = "video" -> VideoIds
      [] OTHER -> ChannelIds

MaxResultsOf(kind) == IF kind = "search" THEN MaxResultsInputs ELSE {Undefined}

\* The requests of the second specification: each parameter as the handler
\* reads it from req.query or req.params, over the cases its first lines
\* tell apart.
WideQueries ==
    {Undefined, Str(<<>>), Str(<<" ">>), Str(<<"a">>), Str(<<" ", "A", " ">>)}
WideMaxResults ==
    {Undefined, Str(<<"x">>), Str(<<"0">>), Str(<<"-", "5">>), Str(<<"7">>),
     Str(<<"5", "0">>), Str(<<"5", "1">>)}
WideVideoIds == {Str(<<>>), Str(<<" ">>), Str(<<"v">>)}
WideChannelIds == {Str(<<>>), Str(<<" ">>), Str(<<"c">>)}

WideParamsOf(kind) ==
    CASE kind = "search" -> WideQueries
      [] kind = "video" -> WideVideoIds
      [] OTHER -> WideChannelIds

WideMaxResultsOf(kind) ==
    IF kind = "search" THEN WideMaxResults ELSE {Undefined}

----------------------------------------------------------------------------
(* Initial state: the server listens, the cache is empty, and the probe that
   app.listen starts is awaiting its fetch *)

Init ==
    /\ now = StartNow
    /\ ticks = 0
    /\ cache = EmptyCache
    /\ quotaExhausted = FALSE
    /\ lastQuotaCheck = 0
    /\ inflight = EmptyBag
    /\ probe = [i \in ProbeIds |-> IF i = 0 THEN StartNow ELSE NoProbe]
    /\ upstreamCalls = 0
    /\ last = NoExchange
    /\ fresh = NoFresh
    /\ lastProbeAt = StartNow

\* A lookup request arrives and its handler runs to its first await.
Lookup(kind, p, m) ==
    /\ last = NoExchange
    /\ LET h == HandlerHead(kind, p, m, cache, quotaExhausted, now)
       IN  /\ h.call => upstreamCalls < MaxCalls
           /\ cache' = h.cache
           /\ inflight' = IF h.call THEN inflight (+) SetToBag({h.x})
                          ELSE inflight
           /\ upstreamCalls' = IF h.call THEN upstreamCalls + 1
                               ELSE upstreamCalls
           /\ last' = IF h.call THEN NoExchange ELSE h.x
    /\ UNCHANGED <<now, ticks, quotaExhausted, lastQuotaCheck, probe, fresh,
                   lastProbeAt>>

\* Complete with a second attempt after a failed fetch
Complete_Retry(x, o) ==
    /\ last = NoExchange
    /\ BagIn(x, inflight)
    /\ IF o.t = "fetchError" /\ upstreamCalls < MaxCalls
       THEN /\ upstreamCalls' = upstreamCalls + 1
            /\ UNCHANGED <<cache, quotaExhausted, lastQuotaCheck, last, fresh,
                           inflight>>
       ELSE LET res == MakeYouTubeApiCall(o, x.key, cache, quotaExhausted,
                                          lastQuotaCheck, now)
                y == [AfterCall(x, res) EXCEPT !.up = o.t, !.upBody = o.body]
            IN  /\ cache' = res.cache
                /\ quotaExhausted' = res.quotaExhausted
                /\ lastQuotaCheck' = res.lastQuotaCheck
                /\ last' = y
                /\ fresh' = IF y.status = 200 /\ ~y.fromCache
                            THEN FreshAdd(fresh, y, now)
                            ELSE fresh
                /\ inflight' = inflight (-) SetToBag({x})
                /\ upstreamCalls' = upstreamCalls
    /\ UNCHANGED <<now, ticks, probe, lastProbeAt>>

\* Complete leaving the request without a response when the body does not
\* parse
Complete_Drop(x, o) ==
    /\ last = NoExchange
    /\ BagIn(x, inflight)
    /\ LET res == MakeYouTubeApiCall(o, x.key, cache, quotaExhausted,
                                     lastQuotaCheck, now)
           y == [AfterCall(x, res) EXCEPT !.up = o.t, !.upBody = o.body]
       IN  /\ cache' = res.cache
           /\ quotaExhausted' = res.quotaExhausted
           /\ lastQuotaCheck' = res.lastQuotaCheck
           /\ last' = IF o.t = "invalidJson" THEN NoExchange ELSE y
           /\ fresh' = IF y.status = 200 /\ ~y.fromCache
                       THEN FreshAdd(fresh, y, now)
                       ELSE fresh
    /\ inflight' = inflight (-) SetToBag({x})
    /\ UNCHANGED <<now, ticks, probe, upstreamCalls, lastProbeAt>>

\* The upstream call of the in-flight lookup x ends with o;
\* makeYouTubeApiCall and the rest of the handler run to the response.
Complete(x, o) ==
    /\ last = NoExchange
    /\ BagIn(x, inflight)
    /\ LET res == MakeYouTubeApiCall(o, x.key, cache, quotaExhausted,
                                     lastQuotaCheck, now)
           y == [AfterCall(x, res) EXCEPT !.up = o.t, !.upBody = o.body]
       IN  /\ cache' = res.cache
           /\ quotaExhausted' = res.quotaExhausted
           /\ lastQuotaCheck' = res.lastQuotaCheck
           /\ last' = y
           /\ fresh' = IF y.status = 200 /\ ~y.fromCache
                       THEN FreshAdd(fresh, y, now)
                       ELSE fresh
    /\ inflight' = inflight (-) SetToBag({x})
    /\ UNCHANGED <<now, ticks, probe, upstreamCalls, lastProbeAt>>

\* GET /api/Youtube/quota-status from caller i: checkQuotaStatus to its await
QuotaStatus(i) ==
    /\ last = NoExchange
    /\ i # 0
    /\ probe[i] = NoProbe
    /\ IF ProbeSkipped(now, lastQuotaCheck, quotaExhausted)
       THEN /\ last' = QuotaStatusResponse(FALSE, cache)
            /\ probe' = probe
            /\ lastProbeAt' = lastProbeAt
       ELSE /\ last' = NoExchange
            /\ probe' = [probe EXCEPT ![i] = now]
            /\ lastProbeAt' = now
    /\ UNCHANGED <<now, ticks, cache, quotaExhausted, lastQuotaCheck, inflight,
                   upstreamCalls, fresh>>

\* The fetch of probe i ends with po; the caller sends the quota-status
\* response, or, for probe 0, writes the line "Initial quota status" to the
\* log.  Either records how the fetch ended (up).
ProbeComplete(i, po) ==
    /\ last = NoExchange
    /\ probe[i] # NoProbe
    /\ LET e == ProbeEnd(po, probe[i], quotaExhausted, lastQuotaCheck)
       IN  /\ quotaExhausted' = e.quotaExhausted
           /\ lastQuotaCheck' = e.lastQuotaCheck
           /\ last' = IF i = 0
                      THEN [StartupLog(e.ret) EXCEPT !.up = po]
                      ELSE [QuotaStatusResponse(e.ret, cache) EXCEPT !.up = po]
    /\ probe' = [probe EXCEPT ![i] = NoProbe]
    /\ UNCHANGED <<now, ticks, cache, inflight, upstreamCalls, fresh,
                   lastProbeAt>>

\* DELETE /api/cache removing only what has expired
Flush_ExpiredOnly ==
    /\ last = NoExchange
    /\ cache' = CacheSweep(cache, now)
    /\ last' = [NoExchange EXCEPT !.op = "flush", !.status = 200,
                                  !.clearedKeys = Cardinality(CacheKeys(cache))]
    /\ fresh' = NoFresh
    /\ UNCHANGED <<now, ticks, quotaExhausted, lastQuotaCheck, inflight, probe,
                   upstreamCalls, lastProbeAt>>

\* DELETE /api/cache
Flush ==
    /\ last = NoExchange
    /\ cache' = EmptyCache
    /\ last' = [NoExchange EXCEPT !.op = "flush", !.status = 200,
                                  !.clearedKeys = Cardinality(CacheKeys(cache))]
    /\ fresh' = NoFresh
    /\ UNCHANGED <<now, ticks, quotaExhausted, lastQuotaCheck, inflight, probe,
                   upstreamCalls, lastProbeAt>>

\* GET /health
Health ==
    /\ last = NoExchange
    /\ last' = [NoExchange EXCEPT !.op = "health", !.status = 200]
    /\ UNCHANGED <<now, ticks, cache, quotaExhausted, lastQuotaCheck, inflight,
                   probe, upstreamCalls, fresh, lastProbeAt>>

\* The response written by the last step has left the process.
Deliver ==
    /\ last # NoExchange
    /\ last' = NoExchange
    /\ UNCHANGED <<now, ticks, cache, quotaExhausted, lastQuotaCheck, inflight,
                   probe, upstreamCalls, fresh, lastProbeAt>>

\* node-cache's checkperiod timer
Sweep ==
    /\ last = NoExchange
    /\ cache' = CacheSweep(cache, now)
    /\ UNCHANGED <<now, ticks, quotaExhausted, lastQuotaCheck, inflight, probe,
                   upstreamCalls, last, fresh, lastProbeAt>>

\* Time passes.  A fetch is aborted at its timeout, so a call in flight
\* spans only clock advances that sum to less than its timeout.
Tick(d) ==
    /\ last = NoExchange
    /\ ticks < MaxTicks
    /\ inflight # EmptyBag =>
            d = ShortTick /\ (ticks + 1) * ShortTick < FetchTimeout
    /\ (\E i \in ProbeIds : probe[i] # NoProbe) =>
            d = ShortTick /\ (ticks + 1) * ShortTick < ProbeTimeout
    /\ now' = now + d
    /\ ticks' = ticks + 1
    /\ fresh' = FreshPrune(fresh, now + d)
    /\ UNCHANGED <<cache, quotaExhausted, lastQuotaCheck, inflight, probe,
                   upstreamCalls, last, lastProbeAt>>

Next ==
    \/ \E kind \in LookupKinds :
         \E p \in ParamsOf(kind), m \in MaxResultsOf(kind) : Lookup(kind, p, m)
    \/ \E x \in BagToSet(inflight), o \in UpstreamOutcomes : Complete(x, o)
    \/ \E i \in ProbeIds : QuotaStatus(i)
    \/ \E i \in ProbeIds, po \in ProbeOutcomes : ProbeComplete(i, po)
    \/ Flush
    \/ Health
    \/ Deliver
    \/ Sweep
    \/ \E d \in TickSteps : Tick(d)

Spec == Init /\ [][Next]_vars

\* The second specification: the same server, at one clock reading, taking
\* the wide requests.
NextInput ==
    \/ \E kind \in LookupKinds :
         \E p \in WideParamsOf(kind), m \in WideMaxResultsOf(kind) :
            Lookup(kind, p, m)
    \/ \E x \in BagToSet(inflight), o \in UpstreamOutcomes : Complete(x, o)
    \/ \E i \in ProbeIds, po \in ProbeOutcomes : ProbeComplete(i, po)
    \/ Flush
    \/ Deliver

SpecInput == Init /\ [][NextInput]_vars

\* What the runtime guarantees: a fetch settles (it resolves, rejects or is
\* aborted by its AbortSignal.timeout) and its continuation runs; a response
\* written is sent.
Fairness ==
    /\ WF_vars(Deliver)
    /\ SF_vars(\E x \in BagToSet(inflight), o \in UpstreamOutcomes :
                    Complete(x, o))
    /\ SF_vars(\E i \in ProbeIds, po \in ProbeOutcomes : ProbeComplete(i, po))

\* The server with that guarantee.
SpecLive == Init /\ [][Next]_vars /\ Fairness

\* The server when no client calls GET /api/Youtube/quota-status.
NextBackground ==
    \/ \E kind \in LookupKinds :
         \E p \in ParamsOf(kind), m \in MaxResultsOf(kind) : Lookup(kind, p, m)
    \/ \E x \in BagToSet(inflight), o \in UpstreamOutcomes : Complete(x, o)
    \/ \E i \in ProbeIds, po \in ProbeOutcomes : ProbeComplete(i, po)
    \/ Flush
    \/ Health
    \/ Deliver
    \/ Sweep
    \/ \E d \in TickSteps : Tick(d)

SpecBackground == Init /\ [][NextBackground]_vars /\ Fairness

----------------------------------------------------------------------------
(* Vocabulary of the properties *)

\* the lookups whose handler starts in this step: the one answered at once,
\* or the one that went into makeYouTubeApiCall
Arrivals ==
    (IF last = NoExchange /\ last'.op \in LookupKinds /\ last'.calls = 0
     THEN {last'} ELSE {})
        \cup {x \in BagToSet(inflight') :
                CopiesIn(x, inflight') > CopiesIn(x, inflight)}

\* this step ends the upstream call of a lookup, and answers it
Completes ==
    /\ last = NoExchange
    /\ last'.op \in LookupKinds
    /\ last'.calls = 1

\* the store physically holds an entry under k / one that has not expired
Holds(k) == k \in DOMAIN cache
Live(k) == k \in DOMAIN cache /\ cache[k].t >= now

NoCallStarted == inflight' = inflight /\ upstreamCalls' = upstreamCalls

----------------------------------------------------------------------------
(* C1: a valid lookup that finds a live cache entry for its key is answered
   200 with the cached payload and _fromCache, starts no upstream call and
   leaves the cache, the expiry, quotaExhausted and lastQuotaCheck as they
   were, whatever the quota state *)
C1_CacheFirst ==
    [][\A x \in Arrivals :
          (~Invalid(x.op, x.param) /\ Live(CacheKey(x.op, x.param, x.maxResults)))
          => /\ last' = x
             /\ x.status = 200
             /\ x.body = cache[CacheKey(x.op, x.param, x.maxResults)].v
             /\ x.fromCache /\ ~x.annQuota /\ x.annApi = ""
             /\ NoCallStarted
             /\ cache' = cache
             /\ quotaExhausted' = quotaExhausted
             /\ lastQuotaCheck' = lastQuotaCheck]_vars

\* a cache hit answered while the quota state is EXHAUSTED
C1_Witness ==
    /\ last.op \in LookupKinds
    /\ last.status = 200 /\ last.fromCache /\ last.calls = 0
    /\ quotaExhausted

(* C2: while quotaExhausted is set, a valid lookup whose key has no live
   cache entry is answered 429 and starts no upstream call *)
C2_QuotaGate ==
    [][\A x \in Arrivals :
          (quotaExhausted /\ ~Invalid(x.op, x.param)
             /\ ~Live(CacheKey(x.op, x.param, x.maxResults)))
          => /\ last' = x
             /\ x.status = 429
             /\ NoCallStarted]_vars

\* a lookup turned away at the gate
C2_Witness ==
    /\ last.op \in LookupKinds
    /\ last.status = 429 /\ last.calls = 0
    /\ quotaExhausted
    /\ ~Live(last.key)

(* C3: when a lookup's upstream call fails with the quota-exceeded signal
   and the store holds an entry for the key (expired or not), the lookup is
   answered 200 with the entry's payload, _fromCache and _quotaExceeded *)
C3_QuotaFallback ==
    [][(Completes /\ last'.up = "quota" /\ Holds(last'.key))
          => /\ last'.status = 200
             /\ last'.body = cache[last'.key].v
             /\ last'.fromCache /\ last'.annQuota]_vars

(* C4: when a lookup's upstream call fails with the quota-exceeded signal
   and the store holds no entry for the key, the lookup is answered 429 with
   quotaExceeded: true, whatever its kind *)
C4_QuotaNoEntry ==
    [][(Completes /\ last'.up = "quota" /\ ~Holds(last'.key))
          => /\ last'.status = 429
             /\ last'.quotaExceeded = "true"]_vars

(* C5: when a lookup's upstream call fails for another reason than quota,
   the lookup is answered 200 with the cached payload, _fromCache and
   _apiError if the store holds an entry for the key, and 500 with the
   failure message otherwise, whatever quotaExhausted is by then *)
NonQuotaFailures == {"fetchError", "nonJson", "invalidJson", "apiError"}

C5_OtherFailure ==
    [][(Completes /\ last'.up \in NonQuotaFailures)
          => IF Holds(last'.key)
             THEN /\ last'.status = 200
                  /\ last'.body = cache[last'.key].v
                  /\ last'.fromCache /\ last'.annApi # ""
             ELSE /\ last'.status = 500
                  /\ ErrorMessage(Outcome(last'.up, NoBody))
                        \in {last'.details, last'.error}]_vars

(* C6: every cache entry holds a payload that passes the items check of the
   handler its key belongs to *)
KindOfKey(k) ==
    CASE k[1] = "s" -> "search" [] k[1] = "v" -> "video" [] OTHER -> "channel"

C6_CachedShapeValid ==
    \A k \in DOMAIN cache :
        LET b == cache[k].v
        IN  IF KindOfKey(k) = "search" THEN b.shape = "array"
            ELSE b.shape # "noitems" /\ b # Body("array", 0)

(* C7: a detail lookup of an id for which upstream's answer has zero items
   is answered 404, be it the answer to this lookup's own call or the answer
   to an earlier lookup of the id that is served now *)
C7_ZeroItemsNotFound ==
    (last.op \in {"video", "channel"}
        /\ Body("array", 0) \in {last.upBody, last.body})
    => last.status = 404

(* C8 as claimed: once a lookup of k has been answered a fresh 200 with body
   b, the store holds b under k, and every lookup of k that starts within
   the TTL of that answer and before a flush is answered 200 with b and
   _fromCache and starts no upstream call.  Stated for the lookups that find
   a payload passing the items check under k, so that what refutes it is
   not the write of unchecked payloads that C6 is about. *)
FreshAnswer == Completes /\ last'.status = 200 /\ ~last'.fromCache

WithinTTL(e) == now <= e.at + stdTTL * 1000

C8_FreshThenSameBody ==
    [][/\ FreshAnswer => /\ last'.key \in DOMAIN cache'
                         /\ cache'[last'.key].v = last'.body
       /\ \A x \in Arrivals :
            LET k == CacheKey(x.op, x.param, x.maxResults)
            IN  (~Invalid(x.op, x.param) /\ k \in DOMAIN fresh
                    /\ Holds(k) /\ ~ShapeRefused(x.op, cache[k].v))
                => \A e \in fresh[k] :
                     WithinTTL(e)
                     => /\ last' = x
                        /\ x.status = 200 /\ x.fromCache
                        /\ x.body = e.body
                        /\ NoCallStarted]_vars

(* C8 as amended: the later lookup is answered 200 with _fromCache and the
   body the store then holds under k, and starts no upstream call *)
C8_FreshThenCached ==
    [][/\ FreshAnswer => /\ last'.key \in DOMAIN cache'
                         /\ cache'[last'.key].v = last'.body
       /\ \A x \in Arrivals :
            LET k == CacheKey(x.op, x.param, x.maxResults)
            IN  (~Invalid(x.op, x.param) /\ k \in DOMAIN fresh
                    /\ \E e \in fresh[k] : WithinTTL(e))
                => /\ last' = x
                   /\ x.status = 200 /\ x.fromCache
                   /\ Holds(k) /\ x.body = cache[k].v
                   /\ NoCallStarted]_vars

\* a lookup served from the store at a later clock reading than the fresh
\* answer to an earlier lookup of its key
C8_Witness ==
    /\ last.op \in LookupKinds
    /\ last.status = 200 /\ last.fromCache /\ last.calls = 0
    /\ last.key \in DOMAIN fresh
    /\ \E e \in fresh[last.key] : e.at < now /\ WithinTTL(e)

(* C9 as claimed: a search whose q is missing, empty or only white space, and
   a detail lookup (video or channel) whose id is empty or only white space,
   is answered 400 at once; the cache, the in-flight calls, the count of
   upstream calls, quotaExhausted and lastQuotaCheck stay as they were *)
Blank(p) == p = Undefined \/ \A i \in 1 .. Len(p[1]) : p[1][i] \in {" ", "\t"}

Empty(p) == p = Undefined \/ Len(p[1]) = 0

RejectedUntouched(x) ==
    /\ last' = x
    /\ x.status = 400
    /\ x.calls = 0
    /\ NoCallStarted
    /\ cache' = cache
    /\ quotaExhausted' = quotaExhausted
    /\ lastQuotaCheck' = lastQuotaCheck

C9_BlankRejected ==
    [][\A x \in Arrivals : Blank(x.param) => RejectedUntouched(x)]_vars

(* C9 as amended: the same for a search whose q is missing, empty or only
   white space, a video lookup whose id is empty or only white space, and a
   channel lookup whose id is empty *)
C9_InvalidRejected ==
    [][\A x \in Arrivals :
          (IF x.op = "channel" THEN Empty(x.param) ELSE Blank(x.param))
          => RejectedUntouched(x)]_vars

\* a request of only white space turned away while the cache holds entries
\* and the quota state is EXHAUSTED
C9_Witness ==
    /\ last.op \in {"search", "video"}
    /\ last.status = 400
    /\ last.param # Undefined /\ Len(last.param[1]) > 0
    /\ cache # EmptyCache
    /\ quotaExhausted

(* C10: every search that is not answered 400 uses a result count in 1..50,
   in its cache key as in its upstream call: 10 when maxResults is absent or
   not a number, 50 when the value given exceeds 50 *)
AcceptedSearches ==
    {x \in {last} \cup BagToSet(inflight) : x.op = "search" /\ x.status # 400}

KeySuffix(x, n) ==
    LET d == <<"_">> \o NumberToString(n)
    IN  Len(x.key) > Len(d)
        /\ SubSeq(x.key, Len(x.key) - Len(d) + 1, Len(x.key)) = d

C10_CountInRange ==
    \A x \in AcceptedSearches :
        /\ \E n \in 1 .. 50 : x.count = Num(n) /\ KeySuffix(x, n)
        /\ parseInt(x.maxResults) = NaN => x.count = Num(10)
        /\ (parseInt(x.maxResults) # NaN /\ parseInt(x.maxResults)[1] > 50)
                => x.count = Num(50)

(* Vocabulary of the probe properties *)

\* the probes whose fetch ends in this step / starts in this step
ProbesEnding == {i \in ProbeIds : probe[i] # NoProbe /\ probe'[i] = NoProbe}
ProbesStarting == {i \in ProbeIds : probe[i] = NoProbe /\ probe'[i] # NoProbe}

(* C11: quotaExhausted goes from true to false only in a step that ends a
   probe whose fetch got a successful response, at least
   QUOTA_CHECK_INTERVAL after lastQuotaCheck, the probe having started no
   earlier than lastQuotaCheck *)
C11_ClearedOnlyByDueProbe ==
    [][(quotaExhausted /\ ~quotaExhausted')
          => \E i \in ProbesEnding :
                /\ last'.up = "ok"
                /\ now - lastQuotaCheck >= QUOTA_CHECK_INTERVAL
                /\ probe[i] >= lastQuotaCheck]_vars

(* C12: when the fetch of a probe throws, quotaExhausted and lastQuotaCheck
   keep their values and checkQuotaStatus returns the negation of the flag *)
C12_ProbeThrowKeepsFlag ==
    [][(ProbesEnding # {} /\ last'.up = "throw")
          => /\ quotaExhausted' = quotaExhausted
             /\ lastQuotaCheck' = lastQuotaCheck
             /\ last'.quotaOk = Flag(~quotaExhausted)]_vars

\* a probe whose fetch threw while the state was EXHAUSTED
C12_Witness ==
    /\ last.op \in {"quota-status", "startup"}
    /\ last.up = "throw"
    /\ quotaExhausted
    /\ last.quotaOk = "false"

(* C13: a lookup starts at most one upstream call: a call starts only in
   the step in which its lookup arrives, one per arrival, and the step that
   ends the call answers the lookup and starts none *)
C13_OneCallPerLookup ==
    [][/\ upstreamCalls' - upstreamCalls = Cardinality(Arrivals \ {last'})
       /\ Cardinality(Arrivals) <= 1
       /\ \A x \in Arrivals : x.calls <= 1
       /\ (\E x \in BagToSet(inflight) :
                CopiesIn(x, inflight') < CopiesIn(x, inflight))
            => /\ Completes
               /\ BagCardinality(inflight') = BagCardinality(inflight) - 1
               /\ upstreamCalls' = upstreamCalls]_vars

\* a lookup answered from the stale fallback after its one call failed, all
\* calls started so far being over
C13_Witness ==
    /\ last.op \in LookupKinds
    /\ last.calls = 1
    /\ last.up \in NonQuotaFailures
    /\ last.fromCache
    /\ inflight = EmptyBag
    /\ upstreamCalls = MaxCalls

(* C14: DELETE /api/cache empties the store, reports as clearedKeys the
   number of keys the store held, and leaves quotaExhausted and
   lastQuotaCheck alone; an entry appears in the store only in the step in
   which a lookup's upstream call for that key returns successfully, and a
   lookup whose key has no entry is not served from the cache *)
C14_FlushClears ==
    [][/\ (last = NoExchange /\ last'.op = "flush")
            => /\ cache' = EmptyCache
               /\ last'.clearedKeys = Cardinality(DOMAIN cache)
               /\ quotaExhausted' = quotaExhausted
               /\ lastQuotaCheck' = lastQuotaCheck
       /\ \A k \in DOMAIN cache' :
            (k \notin DOMAIN cache \/ cache'[k] # cache[k])
            => /\ Completes
               /\ last'.key = k
               /\ last'.up = "ok"
               /\ cache'[k].v = last'.upBody
       /\ \A x \in Arrivals :
            (~Invalid(x.op, x.param)
                /\ ~Holds(CacheKey(x.op, x.param, x.maxResults)))
            => ~x.fromCache /\ x.status # 200]_vars

\* a flush of two populated keys in the EXHAUSTED state
C14_Witness ==
    /\ last.op = "flush"
    /\ last.clearedKeys = 2
    /\ cache = EmptyCache
    /\ quotaExhausted

(* C15: a lookup whose key has an expired entry is a cache miss, and every
   lookup is answered as it would be had the sweep just removed the expired
   entries: the same status and the same payload, at arrival and at the end
   of its upstream call.  Stated for the states whose entries all pass the
   items check, so that what refutes it is not the write of unchecked
   payloads that C6 is about. *)
Ending ==
    {x \in BagToSet(inflight) : CopiesIn(x, inflight') < CopiesIn(x, inflight)}

C15_SweepUnobservable ==
    [][C6_CachedShapeValid =>
       /\ \A x \in Arrivals :
            /\ (~Invalid(x.op, x.param)
                    /\ ~Live(CacheKey(x.op, x.param, x.maxResults)))
               => ~x.fromCache /\ x.status \in {0, 429}
            /\ x = HandlerHead(x.op, x.param, x.maxResults,
                               CacheSweep(cache, now), quotaExhausted, now).x
       /\ Completes
            => \A x \in Ending :
                 last' = [AfterCall(x,
                            MakeYouTubeApiCall(
                                Outcome(last'.up, last'.upBody), x.key,
                                CacheSweep(cache, now), quotaExhausted,
                                lastQuotaCheck, now))
                          EXCEPT !.up = last'.up, !.upBody = last'.upBody]]_vars

(* C16: two valid searches whose query texts are equal once lower-cased and
   trimmed, and whose effective result counts are equal, have the same cache
   key, so a search is served from the live entry stored under the key of
   any search equivalent to it *)
Normal(p) == trim(toLowerCase(p[1]))

Equivalent(p, m, q, n) ==
    /\ ~Invalid("search", p) /\ ~Invalid("search", q)
    /\ Normal(p) = Normal(q)
    /\ SearchMaxResults(m) = SearchMaxResults(n)

C16_EquivalentShareEntry ==
    [][\A x \in Arrivals :
          x.op = "search"
          => \A q \in WideQueries, n \in WideMaxResults :
                Equivalent(x.param, x.maxResults, q, n)
                => /\ x.key = CacheKey("search", q, n)
                   /\ Live(CacheKey("search", q, n))
                        => /\ last' = x
                           /\ x.status = 200 /\ x.fromCache
                           /\ x.body = cache[CacheKey("search", q, n)].v
                           /\ NoCallStarted]_vars

\* a search served from the entry that a search with another spelling of
\* the query stored
C16_Witness ==
    /\ last.op = "search"
    /\ last.status = 200 /\ last.fromCache /\ last.calls = 0
    /\ last.key \in DOMAIN fresh
    /\ \E e \in fresh[last.key] :
            e.by # last.param /\ e.body = last.body

(* C17: every error response of the three lookup handlers carries an error
   string and a code equal to its status *)
ErrorStatuses == {400, 404, 429, 500, 502}

C17_ErrorEnvelope ==
    (last.op \in LookupKinds /\ last.status \in ErrorStatuses)
    => last.error # "" /\ last.code = last.status

(* C18: the step in which a lookup's upstream call returns the quota signal
   leaves quotaExhausted set, with lastQuotaCheck at the time of that step,
   before the response is produced; and only the end of a probe clears the
   flag, so that with no probe running it stays set however the lookups
   interleave *)
C18_QuotaSignalSetsFlag ==
    [][/\ (Completes /\ last'.up = "quota")
            => quotaExhausted' /\ lastQuotaCheck' = now
       /\ (quotaExhausted /\ ProbesEnding = {}) => quotaExhausted']_vars

\* one of two concurrent lookups has been answered after the quota signal,
\* the other is still in flight, and no probe runs
C18_Witness ==
    /\ last.op \in LookupKinds
    /\ last.up = "quota"
    /\ quotaExhausted
    /\ inflight # EmptyBag
    /\ \A i \in ProbeIds : probe[i] = NoProbe

(* C19: while quotaExhausted is set and less than QUOTA_CHECK_INTERVAL has
   passed since lastQuotaCheck, checkQuotaStatus starts no fetch, returns
   false and leaves quotaExhausted and lastQuotaCheck alone *)
SkippedProbe ==
    /\ last = NoExchange
    /\ last'.op = "quota-status"
    /\ ProbesEnding = {}

C19_DebouncedProbe ==
    [][(quotaExhausted /\ now - lastQuotaCheck < QUOTA_CHECK_INTERVAL)
          => /\ ProbesStarting = {}
             /\ SkippedProbe
                  => /\ last'.quotaOk = "false"
                     /\ quotaExhausted' = quotaExhausted
                     /\ lastQuotaCheck' = lastQuotaCheck]_vars

\* a quota-status request answered without a fetch
C19_Witness ==
    /\ last.op = "quota-status"
    /\ last.up = "none"
    /\ last.quotaOk = "false"
    /\ quotaExhausted
    /\ now - lastQuotaCheck < QUOTA_CHECK_INTERVAL

(* C20: a probe's fetch starts no sooner than QUOTA_CHECK_INTERVAL after the
   start of the previous probe's fetch, in either quota state *)
C20_ProbesSpaced ==
    [][ProbesStarting # {}
          => now - lastProbeAt >= QUOTA_CHECK_INTERVAL]_vars

(* C22: quotaExhausted and lastQuotaCheck change only in the step in which a
   lookup's upstream call returns the quota signal and in the step that ends
   a probe; every other step (a lookup's call succeeding or failing
   otherwise, a cache hit, a gated or invalid request, a flush, the health
   endpoint, a skipped probe) leaves both as they were *)
C22_QuotaStateWriters ==
    [][(quotaExhausted' # quotaExhausted \/ lastQuotaCheck' # lastQuotaCheck)
          => \/ Completes /\ last'.up = "quota"
             \/ ProbesEnding # {}]_vars

\* a lookup answered with a fresh 200 while the state is EXHAUSTED
C22_Witness ==
    /\ last.op \in LookupKinds
    /\ last.up = "ok"
    /\ last.status = 200 /\ ~last.fromCache
    /\ quotaExhausted

(* C25: lastQuotaCheck never decreases *)
C25_LastCheckMonotone ==
    [][lastQuotaCheck' >= lastQuotaCheck]_vars

(* C24: every cache entry holds the object parsed from an upstream response,
   without _fromCache, _quotaExceeded or _apiError; a response served on a
   cache hit carries neither _quotaExceeded nor _apiError, and a fallback
   response carries only the annotation of its own failure *)
C24_EntriesUnannotated ==
    /\ \A k \in DOMAIN cache : CacheAnn(cache, k) = NoAnn
    /\ (last.op \in LookupKinds /\ last.fromCache)
        => /\ last.calls = 0 => ~last.annQuota /\ last.annApi = ""
           /\ last.up = "quota" => last.annApi = ""
           /\ last.up \in NonQuotaFailures => ~last.annQuota

\* a lookup answered from the quota fallback with both annotations, the
\* entry it was copied from being still under its key
C24_Witness ==
    /\ last.op \in LookupKinds
    /\ last.up = "quota"
    /\ last.status = 200 /\ last.fromCache /\ last.annQuota
    /\ last.key \in DOMAIN cache
    /\ cache[last.key].v = last.body

(* C21: without any quota-status request, once the state is EXHAUSTED, no
   probe is running and QUOTA_CHECK_INTERVAL has passed since
   lastQuotaCheck, a probe is eventually issued (or the state is OK again) *)
ProbeDue ==
    /\ quotaExhausted
    /\ \A i \in ProbeIds : probe[i] = NoProbe
    /\ now - lastQuotaCheck >= QUOTA_CHECK_INTERVAL

C21_BackgroundProbe ==
    ProbeDue ~> (~quotaExhausted \/ \E i \in ProbeIds : probe[i] # NoProbe)

(* C23: every lookup is answered exactly once: at arrival it is answered or
   goes into its upstream call, a lookup leaves the in-flight calls only in
   the step that answers it, an answer written is sent before anything else
   happens, a failed call ends in a 200 from the cache or in an error
   response, and no lookup stays in flight forever *)
InflightRecords ==
    {HandlerHead(kind, p, m, EmptyCache, FALSE, StartNow).x :
        kind \in LookupKinds, p \in {Str(<<"a">>), Str(<<"v">>), Str(<<"c">>)},
        m \in {Undefined}}

AnsweredOnceStep ==
    /\ \A x \in Arrivals :
          \/ last' = x /\ x.status \in {200, 400, 429}
          \/ last' = NoExchange /\ x.status = 0 /\ x.calls = 1
    /\ (Ending # {}
          => /\ Completes
             /\ BagCardinality(inflight') = BagCardinality(inflight) - 1
             /\ \A x \in Ending :
                   /\ last'.op = x.op /\ last'.key = x.key
                   /\ last'.status \in {200} \cup (ErrorStatuses \ {400})
                   /\ (last'.up # "ok"
                         => \/ last'.status = 200 /\ last'.fromCache
                            \/ last'.status \in ErrorStatuses \ {400}))
    /\ (last # NoExchange => last' = NoExchange /\ inflight' = inflight)

C23_AnsweredOnce ==
    /\ [][AnsweredOnceStep]_vars
    /\ \A x \in InflightRecords : []<>(~BagIn(x, inflight))

\* a lookup answered with an error after its call failed, while another
\* lookup is still in flight
C23_Witness ==
    /\ last.op \in LookupKinds
    /\ last.calls = 1
    /\ last.up \in NonQuotaFailures
    /\ last.status \in ErrorStatuses
    /\ inflight # EmptyBag

====
